---- MODULE Spec2Model ----
(***************************************************************************)
(* clldfabric: configuration registry (config.py), the deploy task         *)
(* (util.py) and the varnish cache tasks (varnish.py) as state machines.   *)
(*                                                                         *)
(*   SpecLoad  - import of clldfabric.config for arbitrary App(...) lists  *)
(*   Spec      - an operator session of tasks run on one app of APPS       *)
(***************************************************************************)
EXTENDS Integers, Sequences, FiniteSets, TLC

VARIABLES
    source,             \* config.py: the App(...) constructor calls of the APPS list
    APPS,               \* config.py: the registry, name -> App object
    import_result,      \* outcome of importing clldfabric.config
    app,                \* name of the App object the session works on
    task,               \* the task being run: deploy, cache, uncache, ...
    environment,        \* deploy(): parameter
    with_alembic,       \* deploy(): parameter
    with_blog,          \* deploy(): parameter
    with_files,         \* deploy(): parameter
    lsb_release,        \* deploy(): local variable
    template_variables, \* deploy(): local variable
    pwds,               \* http_auth(): local variable
    res,                \* deploy(): local variable, the body of the health response
    answers,            \* what the operator answered to confirm() in this run
    pc,                 \* position of the running task
    log,                \* the operations the running task has issued, in order
    result,             \* how the last task ended
    host                \* remote paths that the exists() guards test

vars == <<source, APPS, import_result, app, task, environment, with_alembic, with_blog,
          with_files, lsb_release, template_variables, pwds, res, answers, pc,
          log, result, host>>

runvars == <<app, task, environment, with_alembic, with_blog, with_files, lsb_release,
             template_variables, pwds, res, answers, pc, log, result, host>>

(***************************************************************************)
(* Bounds                                                                  *)
(***************************************************************************)
MaxApps == 2            \* length of the App(...) lists tried by SpecLoad
MaxAdminRetries == 1    \* empty answers to the admin password prompt, per run

(***************************************************************************)
(* config.py                                                               *)
(***************************************************************************)
SERVERS == <<"cldbstest", "clld1", "clld3", "clld2", "cldbs", "clld4">>

ServerSet == {SERVERS[i] : i \in 1..Len(SERVERS)}

NoKw == [k \in {} |-> ""]

\* App.__init__: name, port and host are set, the four defaults are filled
\* in, then every keyword is stored as an attribute; nothing is checked.
AppInit(name, port, kw) ==
    LET defaults == ("workers" :> 5) @@ ("deploy_duration" :> 1)
                    @@ ("production" :> SERVERS[1]) @@ ("test" :> SERVERS[2])
        positional == ("name" :> name) @@ ("port" :> port)
                      @@ ("host" :> <<name, ".clld.org">>)
    IN  kw @@ defaults @@ positional

HasAttr(a, k) == k \in DOMAIN a

\* App.pages: a path only if the private _pages flag is set
Pages(a) == HasAttr(a, "_pages") /\ a["_pages"]

\* the APPS list before it becomes a dict: (name, app) pairs in list order
AppsList(src) == [i \in 1..Len(src) |-> <<src[i][1], AppInit(src[i][1], src[i][2], src[i][3])>>]

_names(src) == [i \in 1..Len(src) |-> AppsList(src)[i][2]["name"]]

_ports(src) == [i \in 1..Len(src) |-> AppsList(src)[i][2]["port"]]

SeqToSet(s) == {s[i] : i \in 1..Len(s)}

\* len(xs) == len(set(xs))
AllDistinct(s) == Len(s) = Cardinality(SeqToSet(s))

NamesOnlyCheck(src) == AllDistinct(_names(src))

\* the two module-level asserts
ConsistencyChecks(src) == AllDistinct(_names(src)) /\ AllDistinct(_ports(src))

\* dict(APPS): for a repeated key the last pair wins
Dict(pairs) ==
    [n \in {pairs[i][1] : i \in 1..Len(pairs)} |->
        LET last == CHOOSE i \in 1..Len(pairs) :
                        /\ pairs[i][1] = n
                        /\ \A j \in 1..Len(pairs) : pairs[j][1] = n => j <= i
        IN  pairs[last][2]]

NoRegistry == [n \in {} |-> NoKw]

\* the App(...) calls of config.py that the sessions use: a record with an
\* explicit domain, the pages flag and the default workers; one with
\* neither domain nor production server and workers=1
BuiltinSource ==
    << <<"jcld", 8884, ("test" :> SERVERS[1]) @@ ("production" :> SERVERS[5])
                       @@ ("_pages" :> TRUE) @@ ("domain" :> "jcld.clld.org")>>,
       <<"glottologcurator", 8889, ("test" :> SERVERS[2]) @@ ("workers" :> 1)
                       @@ ("dependencies" :> <<"glottolog3">>)>> >>

\* inputs of SpecLoad
LoadNames == {"apics", "wals3"}

LoadPorts == {8886, 8887}

LoadKws == {NoKw, ("test" :> SERVERS[6]), ("test" :> "nosuchserver"),
            ("production" :> "nosuchserver") @@ ("workers" :> 7)}

LoadArgs == {<<n, p, kw>> : n \in LoadNames, p \in LoadPorts, kw \in LoadKws}

Sources == UNION {[1..k -> LoadArgs] : k \in 0..MaxApps}

(***************************************************************************)
(* Importing clldfabric.config (config.py:124-247)                         *)
(***************************************************************************)
\* a host no task has run on yet
FreshHost == [venv_bin |-> FALSE, pages |-> FALSE, bib2xml |-> FALSE, sites_vcl |-> <<>>]

NoRes == [kind |-> "none", fields |-> [k \in {} |-> ""]]

NoPwds == [user |-> FALSE, admin |-> FALSE, empty_answers |-> 0]

NoRun ==
    /\ app = "" /\ task = "" /\ environment = "" /\ with_alembic = FALSE
    /\ with_blog = FALSE
    /\ with_files = FALSE /\ lsb_release = <<>> /\ pwds = NoPwds /\ res = NoRes
    /\ template_variables = [auth |-> "", admin_auth |-> "<unset>",
                             monitor_mode |-> "", blogpassword |-> ""]
    /\ answers = [q \in {"Copy files?", "Recreate database?", "Upgrade database?"} |-> "unasked"]
    /\ pc = "idle" /\ log = <<>> /\ result = "none"
    /\ host = FreshHost

InitLoad ==
    /\ source \in Sources
    /\ APPS = NoRegistry
    /\ import_result = "pending"
    /\ NoRun

\* the module body: build the list, run the two asserts, replace the list
\* by the dict; a failed assert ends the import and no module is left
ImportConfig ==
    /\ import_result = "pending"
    /\ IF ConsistencyChecks(source)
         THEN /\ APPS' = Dict(AppsList(source))
              /\ import_result' = "ok"
         ELSE /\ APPS' = APPS
              /\ import_result' = "AssertionError"
    /\ UNCHANGED <<source, runvars>>

NextLoad == ImportConfig

SpecLoad == InitLoad /\ [][NextLoad]_vars

(***************************************************************************)
(* util.py: issued operations and rendered templates                       *)
(***************************************************************************)
NoData == [template |-> "none"]

\* a call of run/sudo/local/require.*/service.*/exists
Op(fn, arg) == [fn |-> fn, arg |-> arg, data |-> NoData]

\* create_file_as_root(path, content)
Write(path, content) == [fn |-> "create_file_as_root", arg |-> path, data |-> content]

\* exists() and postgres.database_exists() only test; they never abort the run
IsTest(op) == op.fn \in {"exists", "postgres.database_exists"}

Probe == Op("run", "lsb_release -a")

\* every remote or local command except the probe and the tests changes something
IsMutating(op) == ~IsTest(op) /\ op # Probe /\ op.arg # "curl /_ping"

LocationTemplate(a, tv) ==
    [template |-> "LOCATION_TEMPLATE", location |-> a["name"],
     proxy_pass |-> a["port"], auth |-> tv.auth, admin_auth |-> tv.admin_auth]

SiteTemplate(a, tv) ==
    [template |-> "SITE_TEMPLATE", server_name |-> a["domain"],
     proxy_pass |-> a["port"], auth |-> tv.auth, admin_auth |-> tv.admin_auth]

LogrotateTemplate(a) == [template |-> "LOGROTATE_TEMPLATE", name |-> a["name"]]

Http503Template(a, hours) ==
    [template |-> "HTTP_503_TEMPLATE", name |-> a["name"], hours |-> hours]

SupervisorTemplate(command, a) ==
    [template |-> "SUPERVISOR_TEMPLATE", program |-> a["name"],
     autostart |-> (command = "run"), autorestart |-> (command = "run")]

ConfigTemplate(env, a, tv) ==
    [template |-> "CONFIG_TEMPLATES", section |-> env, port |-> a["port"],
     workers |-> a["workers"], prefix |-> IF env = "test" THEN a["name"] ELSE "",
     blogpassword |-> tv.blogpassword]

NewrelicTemplate(a, tv) ==
    [template |-> "NEWRELIC_TEMPLATE", app_name |-> a["name"],
     monitor_mode |-> tv.monitor_mode]

\* SITE_TEMPLATE.format(...) reads app.domain, which App.__init__ never sets
\* on its own
SiteTemplateFormats(a) == HasAttr(a, "domain")

(***************************************************************************)
(* util.py: deploy                                                         *)
(***************************************************************************)
DatabaseBeforeMaintenance ==
    <<"detect", "prepare", "provision", "venv", "pages", "packages", "bibutils",
      "http_auth", "admin_password", "nginx", "files", "database", "maintenance",
      "config", "resume", "health">>

\* the statements of deploy, in the order of the source
DeploySteps ==
    <<"detect", "prepare", "provision", "venv", "pages", "packages", "bibutils",
      "http_auth", "admin_password", "nginx", "maintenance", "files", "database",
      "config", "resume", "health">>

StepIndex(step) == CHOOSE i \in 1..Len(DeploySteps) : DeploySteps[i] = step

\* the statement after a step
After(step) ==
    IF StepIndex(step) = Len(DeploySteps) THEN "done"
    ELSE DeploySteps[StepIndex(step) + 1]

\* outputs of `lsb_release -a`, as the words they consist of
TestStub == <<"{\"status\": \"ok\"}">>

ProbeOutputs ==
    {<<"Codename:", "trusty">>, <<"Codename:", "precise">>,
     <<"Codename:", "wheezy">>, TestStub, <<>>}

Codenames == <<"trusty", "precise">>

Contains(out, word) == \E i \in 1..Len(out) : out[i] = word

HasCodename(out) == \E i \in 1..Len(Codenames) : Contains(out, Codenames[i])

\* the for/else of lines 485-492: the first codename found replaces the
\* output; without one the output is kept
DetectRelease(out) ==
    IF HasCodename(out)
    THEN <<Codenames[CHOOSE i \in 1..Len(Codenames) :
                /\ Contains(out, Codenames[i])
                /\ \A j \in 1..(i - 1) : ~Contains(out, Codenames[j])]>>
    ELSE out

AcceptsAnyOutput(out) == TRUE

\* the platform is refused unless a codename was found or the output is the
\* stubbed answer of the functional test
PlatformAccepted(out) == HasCodename(out) \/ out = TestStub

\* lines 494-495
SetThreeWorkers(env, workers) == IF env = "test" THEN 3 ELSE workers

ClampWorkers(env, workers) == IF env = "test" /\ workers > 3 THEN 3 ELSE workers

Packages ==
    <<"libpq-dev", "git", "nginx", "supervisor", "openjdk-6-jre", "make", "sqlite3",
      "curl", "libxml2-dev", "libxslt-dev", "python-pip", "apache2-utils">>

\* lines 502-522
ProvisionOps(a) ==
    <<Op("require.users.user", a["name"]), Op("require.postfix.server", "env.host"),
      Op("require.postgres.server", "")>>
    \o [i \in 1..Len(Packages) |-> Op("require.deb.package", Packages[i])]
    \o <<Op("require.postgres.user", a["name"]),
         Op("require.postgres.database", a["name"]),
         Op("require.files.directory", "venv")>>

MakeVenv == Op("sudo", "virtualenv -q --python=python3")

VenvAlways(lsb, h) ==
    (IF lsb = <<"precise">>
        THEN <<Op("require.python.virtualenv", "venv")>>
        ELSE <<Op("require.deb.package", "python3-dev"),
               Op("require.deb.package", "python-virtualenv"),
               Op("exists", "venv/bin"), MakeVenv>>)
    \o <<Op("require.files.directory", "logs")>>

\* lines 524-532
VenvOps(lsb, h) ==
    (IF lsb = <<"precise">>
        THEN <<Op("require.python.virtualenv", "venv")>>
        ELSE <<Op("require.deb.package", "python3-dev"),
               Op("require.deb.package", "python-virtualenv"),
               Op("exists", "venv/bin")>>
             \o (IF ~h.venv_bin THEN <<MakeVenv>> ELSE <<>>))
    \o <<Op("require.files.directory", "logs")>>

ClonePages == Op("sudo", "git clone pages")

\* lines 534-536
PagesOps(a, h) ==
    IF Pages(a)
    THEN <<Op("exists", "pages")>> \o (IF ~h.pages THEN <<ClonePages>> ELSE <<>>)
    ELSE <<>>

Dependencies(a) == IF HasAttr(a, "dependencies") THEN a["dependencies"] ELSE <<>>

Repos(a) == <<"clld", "clldmpg">> \o Dependencies(a) \o <<a["name"]>>

\* lines 538-549
PackagesOps(lsb, a) ==
    (IF lsb = <<"precise">> THEN <<Op("sudo", "pip install pip==1.4.1")>> ELSE <<>>)
    \o <<Op("sudo", "pip install webhelpers2==2.0rc1"),
         Op("require.python.package", "gunicorn"),
         Op("require.python.package", "psycopg2")>>
    \o [i \in 1..Len(Repos(a)) |-> Op("install_repos", Repos(a)[i])]
    \o <<Op("sudo", "webassets build")>>

MakeInstall == Op("sudo", "make install")

\* require_bibutils, lines 398-412
BibutilsOps(h) ==
    <<Op("exists", "/usr/local/bin/bib2xml")>>
    \o (IF ~h.bib2xml
        THEN <<Op("sudo", "tar -xzvf bibutils"), Op("sudo", "./configure"),
               Op("sudo", "make"), MakeInstall>>
        ELSE <<>>)

\* what the completed commands leave on the host for the exists() guards
HostAfter(h, done) ==
    [venv_bin |-> h.venv_bin \/ Contains(done, MakeVenv)
                  \/ Contains(done, Op("require.python.virtualenv", "venv")),
     pages    |-> h.pages \/ Contains(done, ClonePages),
     bib2xml  |-> h.bib2xml \/ Contains(done, MakeInstall),
     sites_vcl |-> h.sites_vcl]

UserPasswd(first) == Op("sudo", IF first THEN "htpasswd -bdc user" ELSE "htpasswd -bd user")

AdminPasswd(first) == Op("sudo", IF first THEN "htpasswd -bdc admin" ELSE "htpasswd -bd admin")

\* http_auth, lines 446-450: one htpasswd call per non-empty password, the
\* first one creating the file
HtpasswdOps(p) ==
    IF p.user THEN <<UserPasswd(TRUE), AdminPasswd(FALSE)>> ELSE <<AdminPasswd(TRUE)>>

AuthBlock == "auth_basic"

AuthEverywhere(tv, restricted, auth) ==
    [tv EXCEPT !.auth = auth, !.admin_auth = auth]

\* lines 560-563: restricted, auth = http_auth(app); auth goes to the main
\* location only if restricted, to the admin location always
AuthVariables(tv, restricted, auth) ==
    [tv EXCEPT !.auth = IF restricted THEN auth ELSE @,
               !.admin_auth = auth]

\* lines 565-573
NginxOps(env, a, tv) ==
    IF env = "test"
    THEN <<Write("/etc/nginx/sites-available/default", [template |-> "DEFAULT_SITE"]),
           Write("nginx_location", LocationTemplate(a, tv))>>
    ELSE <<Write("nginx_site", SiteTemplate(a, tv)),
           Write("logrotate", LogrotateTemplate(a))>>

ReloadNginx == Op("service.reload", "nginx")

\* maintenance (lines 425-435) and the reload of line 576
MaintenanceOps(a) ==
    <<Op("require.files.directory", "www"),
      Write("503.html", Http503Template(a, a["deploy_duration"])),
      ReloadNginx>>

\* copy_files, lines 459-478
CopyFilesOps(target_exists) ==
    <<Op("local", "tar -czf files"), Op("require.files.file", "files.tgz"),
      Op("sudo", "tar -xzf files.tgz"), Op("exists", "www/files")>>
    \o (IF target_exists
        THEN <<Op("sudo", "cp -ru files/*"), Op("sudo", "rm -rf files")>>
        ELSE <<Op("sudo", "mv files www")>>)
    \o <<Op("sudo", "chown -R root:root"), Op("sudo", "rm files.tgz"),
         Op("sudo", "tree www")>>

SupervisorNoStop(command, a) ==
    <<Write("supervisor", SupervisorTemplate(command, a))>>
    \o (IF command = "run"
        THEN <<Op("sudo", "supervisorctl reread"), Op("sudo", "supervisorctl update"),
               Op("sudo", "supervisorctl restart")>>
        ELSE <<>>)

\* supervisor, lines 377-395
SupervisorOps(command, a) ==
    <<Write("supervisor", SupervisorTemplate(command, a))>>
    \o (IF command = "run"
        THEN <<Op("sudo", "supervisorctl reread"), Op("sudo", "supervisorctl update"),
               Op("sudo", "supervisorctl restart")>>
        ELSE <<Op("sudo", "supervisorctl stop")>>)

DropDb == Op("sudo", "dropdb")

RestoreDb == Op("sudo", "psql -f dump.sql")

AlembicUpgrade == Op("sudo", "alembic upgrade head")

\* lines 586-600
RecreateOps(a, db_exists) ==
    <<Op("local", "pg_dump"), Op("local", "gzip"),
      Op("require.files.file", "dump.sql.gz"), Op("sudo", "gunzip")>>
    \o SupervisorOps("pause", a)
    \o <<Op("postgres.database_exists", a["name"])>>
    \o (IF db_exists
        THEN <<DropDb, Op("require.postgres.database", a["name"])>>
        ELSE <<>>)
    \o <<RestoreDb>>

UpgradeUnasked(a, has_ini, upgrade) ==
    <<Op("exists", "alembic.ini")>>
    \o (IF has_ini THEN SupervisorOps("pause", a) \o <<AlembicUpgrade>> ELSE <<>>)

\* lines 602-610
UpgradeOps(a, has_ini, upgrade) ==
    <<Op("exists", "alembic.ini")>>
    \o (IF has_ini /\ upgrade
        THEN SupervisorOps("pause", a) \o <<AlembicUpgrade>>
        ELSE <<>>)

\* line 585: the condition of the if; its else is taken whenever it is false
TakesRecreateBranch(alembic, recreate) == ~alembic /\ recreate

\* line 585: confirm() is only evaluated when with_alembic is false
AsksRecreate(alembic) == ~alembic

\* lines 612-615
ConfigOps(env, a, tv) ==
    <<Write("config", ConfigTemplate(env, a, tv)),
      Write("newrelic_config", NewrelicTemplate(a, tv))>>

\* line 620
HealthCheck(a) ==
    [fn |-> "run", arg |-> "curl /_ping",
     data |-> [template |-> "http://localhost:%s/_ping", port |-> a["port"]]]

\* bodies the health request can return, as json.loads sees them
HealthBodies ==
    {[kind |-> "object", fields |-> ("status" :> "ok")],
     [kind |-> "object", fields |-> ("status" :> "error")],
     [kind |-> "object", fields |-> ("state" :> "ok")],
     [kind |-> "array", fields |-> NoKw],
     [kind |-> "invalid", fields |-> NoKw]}

\* line 621: json.loads(res)['status'] == 'ok'
HealthOk(body) ==
    /\ body.kind = "object"
    /\ "status" \in DOMAIN body.fields
    /\ body.fields["status"] = "ok"

\* the exception line 621 raises otherwise
HealthError(body) ==
    IF body.kind = "invalid" THEN "ValueError"
    ELSE IF body.kind # "object" THEN "TypeError"
    ELSE IF "status" \notin DOMAIN body.fields THEN "KeyError"
    ELSE "AssertionError"

ContinueAfterFailure(next) == next

\* a failed command aborts the task: deploy has no try/except and only the
\* probe runs under warn_only
FailurePc(next) == "done"

(***************************************************************************)
(* The session: deploy runs on one App object of the imported registry     *)
(***************************************************************************)
NoAnswers == [q \in {"Copy files?", "Recreate database?", "Upgrade database?"} |-> "unasked"]

NoTemplateVariables ==
    [auth |-> "", admin_auth |-> "<unset>", monitor_mode |-> "", blogpassword |-> ""]

Init ==
    /\ source = BuiltinSource
    /\ APPS = Dict(AppsList(BuiltinSource))
    /\ import_result = "ok"
    /\ app \in {BuiltinSource[i][1] : i \in 1..Len(BuiltinSource)}
    /\ task = "" /\ environment = "" /\ with_alembic = FALSE /\ with_blog = FALSE
    /\ with_files = FALSE /\ lsb_release = <<>> /\ pwds = NoPwds /\ res = NoRes
    /\ template_variables = NoTemplateVariables
    /\ answers = NoAnswers
    /\ pc = "idle" /\ log = <<>> /\ result = "none"
    /\ host = FreshHost

config == <<source, import_result>>

params == <<app, task, environment, with_alembic, with_blog, with_files>>

\* the commands of a step are issued in order; the first one that fails is
\* the last one issued
Issue(ops, next) ==
    \/ /\ log' = log \o ops
       /\ pc' = next
       /\ host' = HostAfter(host, ops)
       /\ result' = result
    \/ \E f \in 1..Len(ops) :
       /\ ~IsTest(ops[f])
       /\ log' = log \o SubSeq(ops, 1, f)
       /\ pc' = FailurePc(next)
       /\ host' = HostAfter(host, SubSeq(ops, 1, f - 1))
       /\ result' = "RemoteCommandError"

Raise(exception) ==
    /\ pc' = "done"
    /\ result' = exception
    /\ UNCHANGED <<log, host>>

\* deploy is called; lines 483-492
DeployDetect ==
    /\ pc = "idle"
    /\ import_result = "ok"
    /\ task' = "deploy"
    /\ \E env \in {"test", "production"}, alembic, blog, files \in BOOLEAN,
          out \in ProbeOutputs :
        /\ environment' = env
        /\ with_alembic' = alembic
        /\ with_blog' = blog
        /\ with_files' = files
        /\ lsb_release' = DetectRelease(out)
        /\ log' = <<Probe>>
        /\ IF PlatformAccepted(out)
             THEN pc' = After("detect") /\ result' = "none"
             ELSE pc' = "done" /\ result' = "ValueError"
    /\ template_variables' = NoTemplateVariables
    /\ pwds' = NoPwds
    /\ res' = NoRes
    /\ answers' = NoAnswers
    /\ UNCHANGED <<config, APPS, app, host>>

\* lines 494-500, with get_template_variables (lines 347-374)
DeployPrepare ==
    /\ pc = "prepare"
    /\ APPS' = [APPS EXCEPT ![app]["workers"] = ClampWorkers(environment, @)]
    /\ IF ~with_blog
         THEN /\ template_variables' =
                    [NoTemplateVariables EXCEPT
                        !.monitor_mode = IF environment = "production" THEN "true" ELSE "false"]
              /\ pc' = After("prepare")
              /\ UNCHANGED <<log, host, result>>
         ELSE IF ~HasAttr(APPS[app], "domain")
         THEN /\ Raise("AttributeError")
              /\ UNCHANGED template_variables
         ELSE \E blogpassword \in {"", "secret"} :
              /\ template_variables' =
                    [NoTemplateVariables EXCEPT
                        !.monitor_mode = IF environment = "production" THEN "true" ELSE "false",
                        !.blogpassword = blogpassword]
              /\ IF blogpassword = ""
                   THEN Raise("AssertionError")
                   ELSE pc' = After("prepare") /\ UNCHANGED <<log, host, result>>
    /\ UNCHANGED <<config, params, lsb_release, pwds, res, answers>>

Locals == <<lsb_release, template_variables, pwds, res, answers>>

DeployProvision ==
    /\ pc = "provision"
    /\ Issue(ProvisionOps(APPS[app]), After("provision"))
    /\ UNCHANGED <<config, APPS, params, Locals>>

DeployVenv ==
    /\ pc = "venv"
    /\ Issue(VenvOps(lsb_release, host), After("venv"))
    /\ UNCHANGED <<config, APPS, params, Locals>>

DeployPages ==
    /\ pc = "pages"
    /\ Issue(PagesOps(APPS[app], host), After("pages"))
    /\ UNCHANGED <<config, APPS, params, Locals>>

DeployPackages ==
    /\ pc = "packages"
    /\ Issue(PackagesOps(lsb_release, APPS[app]), After("packages"))
    /\ UNCHANGED <<config, APPS, params, Locals>>

DeployBibutils ==
    /\ pc = "bibutils"
    /\ Issue(BibutilsOps(host), After("bibutils"))
    /\ UNCHANGED <<config, APPS, params, Locals>>

\* lines 556-558 and the first getpass of http_auth (lines 439-441)
DeployHttpAuth ==
    /\ pc = "http_auth"
    /\ Issue(<<Op("require.files.directory", "/etc/nginx/locations.d")>>, After("http_auth"))
    /\ \E password \in {"", "secret"} :
         pwds' = IF pc' = After("http_auth")
                 THEN [NoPwds EXCEPT !.user = (password # "")]
                 ELSE pwds
    /\ UNCHANGED <<config, APPS, params, lsb_release, template_variables, res, answers>>

\* the while loop of http_auth (lines 443-444), then lines 446-456 and 561-563
DeployAdminPassword ==
    /\ pc = "admin_password"
    /\ \E password \in {"", "secret"} :
         IF password = ""
         THEN /\ pwds.empty_answers < MaxAdminRetries
              /\ pwds' = [pwds EXCEPT !.empty_answers = @ + 1]
              /\ UNCHANGED <<pc, log, host, result, template_variables>>
         ELSE /\ Issue(HtpasswdOps(pwds), After("admin_password"))
              /\ pwds' = IF pc' = After("admin_password")
                         THEN [pwds EXCEPT !.admin = TRUE, !.empty_answers = 0]
                         ELSE pwds
              /\ template_variables' =
                    IF pc' = After("admin_password")
                    THEN AuthVariables(template_variables, pwds.user, AuthBlock)
                    ELSE template_variables
    /\ UNCHANGED <<config, APPS, params, lsb_release, res, answers>>

DeployNginx ==
    /\ pc = "nginx"
    /\ IF environment = "production" /\ ~SiteTemplateFormats(APPS[app])
         THEN Raise("AttributeError")
         ELSE Issue(NginxOps(environment, APPS[app], template_variables), After("nginx"))
    /\ UNCHANGED <<config, APPS, params, Locals>>

DeployMaintenance ==
    /\ pc = "maintenance"
    /\ Issue(MaintenanceOps(APPS[app]), After("maintenance"))
    /\ UNCHANGED <<config, APPS, params, Locals>>

\* lines 581-583
DeployFiles ==
    /\ pc = "files"
    /\ IF ~with_files
         THEN Issue(<<>>, After("files")) /\ UNCHANGED answers
         ELSE \E copy \in BOOLEAN :
              /\ answers' = [answers EXCEPT !["Copy files?"] = IF copy THEN "yes" ELSE "no"]
              /\ IF copy
                   THEN \E target_exists \in BOOLEAN :
                            Issue(CopyFilesOps(target_exists), After("files"))
                   ELSE Issue(<<>>, After("files"))
    /\ UNCHANGED <<config, APPS, params, lsb_release, template_variables, pwds, res>>

\* lines 585-610
DeployDatabase ==
    /\ pc = "database"
    /\ \E recreate \in (IF AsksRecreate(with_alembic) THEN BOOLEAN ELSE {FALSE}) :
         IF TakesRecreateBranch(with_alembic, recreate)
         THEN /\ answers' = [answers EXCEPT !["Recreate database?"] = "yes"]
              /\ \E db_exists \in BOOLEAN :
                    Issue(RecreateOps(APPS[app], db_exists), After("database"))
         ELSE \E has_ini \in BOOLEAN :
              \E upgrade \in (IF has_ini THEN BOOLEAN ELSE {FALSE}) :
              /\ answers' = [answers EXCEPT
                    !["Recreate database?"] =
                        IF AsksRecreate(with_alembic) THEN "no" ELSE "unasked",
                    !["Upgrade database?"] =
                        IF ~has_ini THEN "unasked" ELSE IF upgrade THEN "yes" ELSE "no"]
              /\ Issue(UpgradeOps(APPS[app], has_ini, upgrade), After("database"))
    /\ UNCHANGED <<config, APPS, params, lsb_release, template_variables, pwds, res>>

DeployConfig ==
    /\ pc = "config"
    /\ Issue(ConfigOps(environment, APPS[app], template_variables), After("config"))
    /\ UNCHANGED <<config, APPS, params, Locals>>

\* line 617
DeployResume ==
    /\ pc = "resume"
    /\ Issue(SupervisorOps("run", APPS[app]), After("resume"))
    /\ UNCHANGED <<config, APPS, params, Locals>>

\* lines 619-621
DeployHealth ==
    /\ pc = "health"
    /\ log' = Append(log, HealthCheck(APPS[app]))
    /\ pc' = "done"
    /\ \/ result' = "RemoteCommandError" /\ res' = res
       \/ \E body \in HealthBodies :
            /\ res' = body
            /\ result' = IF HealthOk(body) THEN "ok" ELSE HealthError(body)
    /\ UNCHANGED <<config, APPS, params, lsb_release, template_variables, pwds, answers,
                   host>>

(***************************************************************************)
(* varnish.py: cache                                                       *)
(***************************************************************************)
VarnishPort == 6081

\* str.join takes exactly one argument, an iterable
JoinAccepts(args) == Len(args) = 1

\* line 75: '/'.join(site_config_dir, '{app.name}.vcl')
SiteConfigJoinArgs == <<"/etc/varnish/sites", "{app.name}.vcl">>

IncludeLine(a) == <<"include", a["name"]>>

\* fabric.contrib.files.append leaves the file alone when it already has the line
FabricAppend(lines, line) == IF Contains(lines, line) THEN lines ELSE Append(lines, line)

SiteVclTemplate(a) ==
    [template |-> "SITE_VCL_TEMPLATE", backend |-> a["name"], port |-> a["port"],
     host |-> a["domain"]]

\* line 86: App(app.name, 6081, domain=app.domain)
CacheApp(a) == AppInit(a["name"], VarnishPort, ("domain" :> a["domain"]))

\* upload_template_as_root(app.nginx_site, 'nginx-app.conf', template_vars)
UploadNginxAppConf(a) ==
    Write("nginx_site",
          [template |-> "nginx-app.conf", server_name |-> CacheApp(a)["domain"],
           proxy_pass |-> CacheApp(a)["port"], SITE |-> TRUE])

\* lines 69-71
CachePreOps ==
    <<Op("require.deb.package", "varnish"),
      Write("/etc/default/varnish", [template |-> "DEFAULT"]),
      Write("/etc/varnish/main.vcl", [template |-> "MAIN_VCL"])>>

RegisterInclude(a, h) ==
    IF h.sites_vcl # <<>>
    THEN [fn |-> "append", arg |-> "/etc/varnish/sites.vcl",
          data |-> [template |-> "include", line |-> IncludeLine(a)]]
    ELSE Write("/etc/varnish/sites.vcl", [template |-> "include", line |-> IncludeLine(a)])

\* lines 77-82
CacheRegisterOps(a, h) ==
    <<Op("exists", "/etc/varnish/sites.vcl"), RegisterInclude(a, h),
      Op("require.files.directory", "/etc/varnish/sites")>>

\* lines 83-89
CacheSiteOps(a) ==
    <<Write("/etc/varnish/sites/{app.name}.vcl", SiteVclTemplate(a)),
      Op("service.restart", "varnish"), UploadNginxAppConf(a), ReloadNginx>>

\* the commands cache(app) issues when none of them fails, and the
\* exception that ends it early
CacheRun(a, h) ==
    IF ~JoinAccepts(SiteConfigJoinArgs)
    THEN [ops |-> CachePreOps, raises |-> "TypeError"]
    ELSE IF ~HasAttr(a, "domain")
    THEN [ops |-> CachePreOps \o CacheRegisterOps(a, h), raises |-> "AttributeError"]
    ELSE [ops |-> CachePreOps \o CacheRegisterOps(a, h) \o CacheSiteOps(a),
          raises |-> "ok"]

ManifestAfter(a, h, done) ==
    IF Contains(done, RegisterInclude(a, h))
    THEN FabricAppend(h.sites_vcl, IncludeLine(a))
    ELSE h.sites_vcl

\* cache(app), lines 66-89
Cache ==
    /\ pc = "idle"
    /\ import_result = "ok"
    /\ task' = "cache"
    /\ pc' = "done"
    /\ LET r == CacheRun(APPS[app], host)
       IN  \/ /\ log' = r.ops
              /\ result' = r.raises
              /\ host' = [host EXCEPT !.sites_vcl = ManifestAfter(APPS[app], host, r.ops)]
           \/ \E f \in 1..Len(r.ops) :
              /\ ~IsTest(r.ops[f])
              /\ log' = SubSeq(r.ops, 1, f)
              /\ result' = "RemoteCommandError"
              /\ host' = [host EXCEPT !.sites_vcl =
                            ManifestAfter(APPS[app], host, SubSeq(r.ops, 1, f - 1))]
    /\ UNCHANGED <<config, APPS, app, environment, with_alembic, with_blog, with_files,
                   Locals>>

(***************************************************************************)
(* varnish.py: uncache                                                     *)
(***************************************************************************)
\* the names varnish.py binds at module level (lines 15-63) and those its
\* functions look up there
VarnishGlobals ==
    {"append", "exists", "require", "service", "create_file_as_root",
     "upload_template_as_root", "get_template_variables", "http_auth", "App",
     "DEFAULT", "MAIN_VCL", "SITE_VCL_TEMPLATE", "cache", "uncache"}

\* the keys of the dict get_template_variables returns (util.py lines 351-362)
TemplateVariableKeys ==
    {"app", "env", "newrelic_api_key", "config", "gunicorn", "newrelic",
     "monitor_mode", "auth", "bloghost", "bloguser", "blogpassword"}

\* the top-level replacement fields of SITE_TEMPLATE (util.py lines 113-150)
SiteTemplateFields == {"app", "auth", "admin_auth"}

\* line 94: tv['auth'] is the pair http_auth returns, rendered by str()
AuthPair(p) == IF p.user THEN "(True, auth_basic)" ELSE "(False, auth_basic)"

\* lines 93-94: the admin_auth key is never added
UncacheTemplateVariables(p) ==
    [NoTemplateVariables EXCEPT !.auth = AuthPair(p)]

\* the commands uncache(app) issues when none of them fails, and the
\* exception that ends it early
UncacheRun(a, p) ==
    IF ~("SITE_TEMPLATE" \in VarnishGlobals)
    THEN [ops |-> HtpasswdOps(p), raises |-> "NameError"]
    ELSE IF ~(SiteTemplateFields \subseteq TemplateVariableKeys)
    THEN [ops |-> HtpasswdOps(p), raises |-> "KeyError"]
    ELSE IF ~SiteTemplateFormats(a)
    THEN [ops |-> HtpasswdOps(p), raises |-> "AttributeError"]
    ELSE [ops |-> HtpasswdOps(p)
                  \o <<Write("nginx_site", SiteTemplate(a, UncacheTemplateVariables(p))),
                       ReloadNginx>>,
          raises |-> "ok"]

\* a task that runs from start to end in one step: all its commands, or the
\* commands up to the first one that fails
Atomic(ops, raises) ==
    /\ pc = "idle"
    /\ import_result = "ok"
    /\ pc' = "done"
    /\ \/ /\ log' = ops
          /\ result' = raises
          /\ host' = HostAfter(host, ops)
       \/ \E f \in 1..Len(ops) :
          /\ ~IsTest(ops[f])
          /\ log' = SubSeq(ops, 1, f)
          /\ result' = "RemoteCommandError"
          /\ host' = HostAfter(host, SubSeq(ops, 1, f - 1))

\* uncache(app), lines 92-96; the admin prompt of http_auth is repeated until
\* the answer is not empty, which leaves pwds['admin'] set
Uncache ==
    /\ task' = "uncache"
    /\ \E password \in {"", "secret"} :
         /\ pwds' = [NoPwds EXCEPT !.user = (password # ""), !.admin = TRUE]
         /\ Atomic(UncacheRun(APPS[app], pwds').ops, UncacheRun(APPS[app], pwds').raises)
    /\ UNCHANGED <<config, APPS, app, environment, with_alembic, with_blog, with_files,
                   lsb_release, template_variables, res, answers>>

(***************************************************************************)
(* util.py: the tasks maintenance, supervisor and copy_files on their own  *)
(***************************************************************************)
\* maintenance(app), lines 425-435: no reload of nginx
MaintenanceTaskOps(a) == SubSeq(MaintenanceOps(a), 1, 2)

Maintenance ==
    /\ task' = "maintenance"
    /\ Atomic(MaintenanceTaskOps(APPS[app]), "ok")
    /\ UNCHANGED <<config, APPS, app, environment, with_alembic, with_blog, with_files,
                   Locals>>

\* the keys of SUPERVISOR_TEMPLATE, lines 209-212
SupervisorCommands == {"run", "pause"}

\* supervisor(app, command), lines 377-395
Supervisor ==
    /\ task' = "supervisor"
    /\ \E command \in SupervisorCommands \cup {"stop"} :
         IF command \in SupervisorCommands
         THEN Atomic(SupervisorOps(command, APPS[app]), "ok")
         ELSE Atomic(<<>>, "AssertionError")
    /\ UNCHANGED <<config, APPS, app, environment, with_alembic, with_blog, with_files,
                   Locals>>

\* copy_files(app), lines 459-478
CopyFiles ==
    /\ task' = "copy_files"
    /\ \E target_exists \in BOOLEAN :
         Atomic(CopyFilesOps(target_exists), "ok")
    /\ UNCHANGED <<config, APPS, app, environment, with_alembic, with_blog, with_files,
                   Locals>>

\* the task has returned or raised: its parameters and locals are gone, the
\* App object and the host stay as the run left them
TaskReturns ==
    /\ pc = "done"
    /\ pc' = "idle"
    /\ task' = "" /\ environment' = "" /\ with_alembic' = FALSE /\ with_blog' = FALSE
    /\ with_files' = FALSE /\ lsb_release' = <<>> /\ pwds' = NoPwds
    /\ template_variables' = NoTemplateVariables
    /\ res' = NoRes
    /\ answers' = NoAnswers
    /\ log' = <<>> /\ result' = "none"
    /\ UNCHANGED <<config, APPS, app, host>>

Next ==
    \/ DeployDetect
    \/ DeployPrepare
    \/ DeployProvision
    \/ DeployVenv
    \/ DeployPages
    \/ DeployPackages
    \/ DeployBibutils
    \/ DeployHttpAuth
    \/ DeployAdminPassword
    \/ DeployNginx
    \/ DeployMaintenance
    \/ DeployFiles
    \/ DeployDatabase
    \/ DeployConfig
    \/ DeployResume
    \/ DeployHealth
    \/ Cache
    \/ Uncache
    \/ Maintenance
    \/ Supervisor
    \/ CopyFiles
    \/ TaskReturns

Spec == Init /\ [][Next]_vars

(***************************************************************************)
(* Properties                                                              *)
(***************************************************************************)
Min(x, y) == IF x <= y THEN x ELSE y

\* the App object as config.py constructed it
Configured == Dict(AppsList(source))[app]

\* positions in the log where the file `path` is written
Writes(path) ==
    {i \in 1..Len(log) : log[i].fn = "create_file_as_root" /\ log[i].arg = path}

Positions(op) == {i \in 1..Len(log) : log[i] = op}

IsPrefix(s, t) == Len(s) <= Len(t) /\ SubSeq(t, 1, Len(s)) = s

\* C1: the workers value rendered into the application configuration is
\* min(configured workers, 3) in a test run and the configured value in a
\* production run, also in a production run that follows a test run on the
\* same App object.
C1_EffectiveWorkers ==
    task = "deploy" =>
        \A i \in Writes("config") :
            log[i].data.workers =
                IF environment = "test"
                THEN Min(Configured["workers"], 3)
                ELSE Configured["workers"]

DuplicateName == \E i, j \in 1..Len(source) : i # j /\ source[i][1] = source[j][1]

DuplicatePort == \E i, j \in 1..Len(source) : i # j /\ source[i][2] = source[j][2]

C3_AnyUnknownOutputRefused ==
    (task = "deploy" /\ ~HasCodename(lsb_release)) =>
        /\ pc = "done"
        /\ result = "ValueError"
        /\ log = <<Probe>>

\* C3: when the probe output has neither codename and is not the literal
\* {"status": "ok"}, deploy raises the unsupported-platform error and the
\* probe is the only operation of the run: no mutating command was issued.
C3_UnsupportedPlatform ==
    (task = "deploy" /\ ~HasCodename(lsb_release) /\ lsb_release # TestStub) =>
        /\ pc = "done"
        /\ result = "ValueError"
        /\ log = <<Probe>>
        /\ \A i \in 1..Len(log) : ~IsMutating(log[i])

C3_Witness ==
    /\ task = "deploy"
    /\ lsb_release = <<"Codename:", "wheezy">>
    /\ result = "ValueError"
    /\ log = <<Probe>>

HealthChecks == {i \in 1..Len(log) : log[i].arg = "curl /_ping"}

\* C4: a deploy run in which no command fails (and whose platform is
\* supported, without the blog prompts) issues exactly one health request,
\* to the app's port, as its last operation and after the supervisor
\* restart, and reports success exactly if the body is a JSON object with
\* status "ok".
C4_OneHealthCheck ==
    (/\ task = "deploy" /\ pc = "done" /\ ~with_blog
     /\ result # "RemoteCommandError"
     /\ PlatformAccepted(lsb_release)) =>
        /\ Cardinality(HealthChecks) = 1
        /\ log[Len(log)] = HealthCheck(Configured)
        /\ log[Len(log)].data.port = Configured["port"]
        /\ \E j \in 1..Len(log) : log[j] = Op("sudo", "supervisorctl restart")
        /\ result = "ok" <=>
                /\ res.kind = "object"
                /\ "status" \in DOMAIN res.fields
                /\ res.fields["status"] = "ok"

DatabaseReplaced ==
    \E i \in 1..Len(log) :
        log[i] \in {Op("local", "pg_dump"), Op("require.files.file", "dump.sql.gz"),
                    DropDb, RestoreDb}

\* C5: a run with with_alembic false never runs the schema migration, a run
\* with with_alembic true never dumps, drops or restores the database, and
\* no run does both.
C5_ExclusiveBranches ==
    task = "deploy" =>
        /\ ~with_alembic => Positions(AlembicUpgrade) = {}
        /\ with_alembic => ~DatabaseReplaced
        /\ ~(DatabaseReplaced /\ Positions(AlembicUpgrade) # {})

\* C6: after cache(app) has run with every command succeeding, the last
\* thing written to the app's nginx site config forwards to port 6081.
C6_SiteForwardsToCache ==
    (task = "cache" /\ pc = "done" /\ result # "RemoteCommandError") =>
        /\ Writes("nginx_site") # {}
        /\ \A i \in Writes("nginx_site") :
                (\A j \in Writes("nginx_site") : j <= i) =>
                    /\ log[i].data.proxy_pass = VarnishPort
                    /\ log[i].data.proxy_pass # Configured["port"]

\* C7 witness: the restore failed after the database had been dropped; the
\* run ended there, without recreating anything it had removed
C7_Witness ==
    /\ task = "deploy"
    /\ result = "RemoteCommandError"
    /\ pc = "done"
    /\ log[Len(log)] = RestoreDb
    /\ Positions(DropDb) # {}
    /\ Positions(Op("sudo", "supervisorctl restart")) = {}
    /\ HealthChecks = {}

\* C7: fail-stop. The command that fails is the last one the run issues:
\* the run is over at once, the only thing that follows is the return of
\* the task, no later step (resume, health check) is issued and nothing is
\* retried; what was issued and what it left on the host stays (the log of
\* a run only grows, the host paths created are not removed).
C7_FailStop ==
    [][/\ (task = "deploy" /\ result = "RemoteCommandError") =>
                /\ pc = "done"
                /\ pc' = "idle"
                /\ host' = host
       /\ (task = "deploy" /\ result # "RemoteCommandError"
           /\ result' = "RemoteCommandError") =>
                /\ pc' = "done"
                /\ Len(log') > Len(log)
                /\ IsPrefix(log, log')
                /\ ~IsTest(log'[Len(log')])
       /\ (task = "deploy" /\ pc' # "idle") => IsPrefix(log, log')
       /\ (host.venv_bin => host'.venv_bin)
       /\ (host.pages => host'.pages)
       /\ (host.bib2xml => host'.bib2xml)]_vars

CopyCommands ==
    {"tar -czf files", "files.tgz", "tar -xzf files.tgz", "www/files", "cp -ru files/*",
     "rm -rf files", "mv files www", "chown -R root:root", "rm files.tgz", "tree www"}

DatabaseCommands ==
    {"pg_dump", "gzip", "dump.sql.gz", "gunzip", "supervisorctl stop", "dropdb",
     "psql -f dump.sql", "alembic.ini", "alembic upgrade head"}

ResumeCommands == {"supervisorctl reread", "supervisorctl update", "supervisorctl restart"}

\* the part of the run an operation belongs to, 0 for the provisioning
\* that comes before the reverse-proxy configuration
Phase(op) ==
    IF op.fn = "create_file_as_root"
    THEN CASE op.arg \in {"/etc/nginx/sites-available/default", "nginx_location",
                          "nginx_site", "logrotate"} -> 1
           [] op.arg = "503.html" -> 2
           [] op.arg = "supervisor" -> IF op.data.autostart THEN 8 ELSE 5
           [] op.arg = "config" -> 6
           [] op.arg = "newrelic_config" -> 7
           [] OTHER -> 0
    ELSE CASE op.arg = "www" -> 2
           [] op.fn = "service.reload" -> 3
           [] op.arg \in CopyCommands -> 4
           [] op.arg \in DatabaseCommands -> 5
           [] op.fn = "postgres.database_exists" -> 5
           [] op.arg \in ResumeCommands -> 8
           [] op.arg = "curl /_ping" -> 9
           [] OTHER -> 0

\* the phases of the log; the database that line 598 creates again right
\* after the drop belongs to the database step
Phases ==
    [i \in 1..Len(log) |->
        IF i > 1 /\ log[i].fn = "require.postgres.database" /\ log[i - 1] = DropDb
        THEN 5 ELSE Phase(log[i])]

InPhase(n) == {i \in 1..Len(log) : Phases[i] = n}

\* C8: the operations of a deploy run come in the order proxy config,
\* maintenance page, proxy reload, file copy, database step, application
\* config, monitoring config, service resume, health probe; a run that got
\* to the health probe has done all the unconditional ones; a database drop
\* or migration has the maintenance page and the reload before it, and the
\* restart has the application config before it.
C8_StepOrder ==
    task = "deploy" =>
        LET ph == Phases
        IN  /\ \A i \in 1..(Len(log) - 1) : ph[i] <= ph[i + 1]
            /\ ph[Len(log)] = 9 =>
                    \A n \in {1, 2, 3, 6, 7, 8} : \E i \in 1..Len(log) : ph[i] = n
            /\ \A i \in 1..Len(log) :
                    log[i] \in {DropDb, AlembicUpgrade} =>
                        /\ \E j \in 1..(i - 1) : ph[j] = 2 /\ log[j].arg = "503.html"
                        /\ \E j \in 1..(i - 1) : ph[j] = 3
            /\ \A i \in 1..Len(log) :
                    log[i].arg = "supervisorctl restart" =>
                        \E j \in 1..(i - 1) : ph[j] = 6

\* C8 witness: a successful run that copied files and replaced the database
C8_Witness ==
    /\ task = "deploy"
    /\ pc = "done"
    /\ result = "ok"
    /\ InPhase(4) # {}
    /\ Positions(DropDb) # {}

\* the run got past the reverse-proxy configuration or was ended by it
NginxStepOver ==
    /\ task = "deploy"
    /\ template_variables.admin_auth = AuthBlock
    /\ pc # "nginx"
    /\ result # "RemoteCommandError"

\* C9: a test run writes the shared default site and the location block
\* /<name> proxying to the app's port, and neither a site block nor a
\* log-rotation rule; a production run writes the site block with the
\* app's domain as server name and the log-rotation rule, and no location
\* block -- for every app of the registry.
C9_ProxyLayout ==
    /\ (NginxStepOver /\ environment = "test") =>
            /\ Writes("/etc/nginx/sites-available/default") # {}
            /\ \E i \in Writes("nginx_location") :
                    /\ log[i].data.location = Configured["name"]
                    /\ log[i].data.proxy_pass = Configured["port"]
            /\ Writes("nginx_site") = {}
            /\ Writes("logrotate") = {}
    /\ (NginxStepOver /\ environment = "production") =>
            /\ \E i \in Writes("nginx_site") :
                    /\ HasAttr(Configured, "domain")
                    /\ log[i].data.server_name = Configured["domain"]
            /\ Writes("logrotate") # {}
            /\ Writes("nginx_location") = {}

UnknownServer ==
    \E i \in 1..Len(source) :
        \E k \in {"test", "production"} :
            k \in DOMAIN source[i][3] /\ source[i][3][k] \notin ServerSet

\* C10: the test and production servers of every record of the registry are
\* in SERVERS, and an import with a record that names another server does
\* not produce a registry.
C10_ServersKnown ==
    /\ \A n \in DOMAIN APPS :
            APPS[n]["test"] \in ServerSet /\ APPS[n]["production"] \in ServerSet
    /\ (UnknownServer /\ import_result # "pending") => import_result # "ok"

\* C11: after uncache(app) has run with every remote command succeeding, the
\* nginx site config has been written with a site block that forwards to
\* 127.0.0.1:<app.port>, and the last command of the run reloads nginx.
C11_UncacheRestoresSite ==
    (task = "uncache" /\ pc = "done" /\ result # "RemoteCommandError") =>
        /\ Writes("nginx_site") # {}
        /\ \A i \in Writes("nginx_site") :
                /\ log[i].data.template = "SITE_TEMPLATE"
                /\ log[i].data.proxy_pass = Configured["port"]
        /\ log[Len(log)] = ReloadNginx

\* the include lines of `a` in the manifest
Includes(h, a) == {i \in 1..Len(h.sites_vcl) : h.sites_vcl[i] = IncludeLine(a)}

\* C12: every cache(app) call whose remote commands all succeed leaves the
\* manifest one line longer, the new last line being the include directive
\* of the app -- so the first call on a host without manifest creates it
\* with that single line and a second call leaves two identical lines.
C12_IncludeAppended ==
    [][(task' = "cache" /\ pc = "idle" /\ result' # "RemoteCommandError") =>
            /\ Len(host'.sites_vcl) = Len(host.sites_vcl) + 1
            /\ host'.sites_vcl[Len(host'.sites_vcl)] = IncludeLine(APPS[app])
            /\ Cardinality(Includes(host', APPS[app]))
                   = Cardinality(Includes(host, APPS[app])) + 1]_vars

\* C13: no step of any task changes the set of registered names, the
\* attributes a record has, or the value of any attribute other than
\* workers; workers is never raised, and it changes only on the record a
\* deploy run with environment test works on.
C13_RecordsReadOnly ==
    [][/\ DOMAIN APPS' = DOMAIN APPS
       /\ \A n \in DOMAIN APPS :
            /\ DOMAIN APPS'[n] = DOMAIN APPS[n]
            /\ \A k \in DOMAIN APPS[n] \ {"workers"} : APPS'[n][k] = APPS[n][k]
            /\ APPS'[n]["workers"] <= APPS[n]["workers"]
            /\ APPS'[n]["workers"] # APPS[n]["workers"] =>
                    /\ task = "deploy"
                    /\ environment = "test"
                    /\ n = app]_vars

\* C13 witness: a test run has lowered workers of its record, and a later
\* task on the same record has ended
C13_Witness ==
    /\ APPS[app]["workers"] < Configured["workers"]
    /\ task \in {"cache", "uncache", "maintenance", "supervisor", "copy_files"}
    /\ pc = "done"

FilesCopied == \E i \in 1..Len(log) : log[i].arg \in CopyCommands

Declined == {q \in DOMAIN answers : answers[q] = "no"}

\* C14: in a deploy run the files are copied only if with_files is set and
\* "Copy files?" was answered yes, the database is dumped, dropped or
\* restored only if "Recreate database?" was answered yes, the migration
\* runs only if "Upgrade database?" was answered yes; and a run in which a
\* question was answered no and no command failed has uploaded the
\* configuration, resumed the service and made the health request.
C14_ConfirmedOnly ==
    task = "deploy" =>
        /\ FilesCopied => (with_files /\ answers["Copy files?"] = "yes")
        /\ DatabaseReplaced => answers["Recreate database?"] = "yes"
        /\ Positions(AlembicUpgrade) # {} => answers["Upgrade database?"] = "yes"
        /\ (Declined # {} /\ pc = "done" /\ result # "RemoteCommandError") =>
                /\ Writes("config") # {}
                /\ Positions(Op("sudo", "supervisorctl restart")) # {}
                /\ HealthChecks # {}

\* C14 witness: every question was asked and answered no, and the run went
\* through to a good health response
C14_Witness ==
    /\ task = "deploy"
    /\ Declined = DOMAIN answers
    /\ pc = "done"
    /\ result = "ok"
    /\ ~FilesCopied /\ ~DatabaseReplaced /\ Positions(AlembicUpgrade) = {}

\* positions where the supervisor unit is written with autostart and
\* autorestart both equal to `flag`
UnitWrites(flag) ==
    {i \in Writes("supervisor") :
        log[i].data.autostart = flag /\ log[i].data.autorestart = flag}

\* positions where the unit was written for pause and the program stopped
\* right after
Paused ==
    {i \in UnitWrites(FALSE) :
        i < Len(log) /\ log[i + 1] = Op("sudo", "supervisorctl stop")}

DatabaseChanged == Positions(DropDb) \cup Positions(RestoreDb) \cup Positions(AlembicUpgrade)

Resumed == UnitWrites(TRUE) \cup {i \in 1..Len(log) : log[i].arg \in ResumeCommands}

\* C15: in a deploy run every drop, restore or migration of the database
\* comes after the unit was written with autostart/autorestart false and
\* the program was stopped, and before anything that resumes it; and once
\* a run that paused the service has made its health request, it has
\* written the unit with true exactly once and issued reread, update and
\* restart exactly once each, right after that write, in that order, all
\* after the pause and before the health request.
C15_PausedAroundDatabase ==
    task = "deploy" =>
        /\ \A d \in DatabaseChanged :
                /\ \E p \in Paused : p + 1 < d
                /\ \A r \in Resumed : d < r
        /\ Writes("supervisor") = UnitWrites(TRUE) \cup UnitWrites(FALSE)
        /\ (Paused # {} /\ HealthChecks # {}) =>
                /\ Cardinality(UnitWrites(TRUE)) = 1
                /\ Cardinality(Resumed) = 4
                /\ \A r \in UnitWrites(TRUE) :
                        /\ r + 3 < Len(log)
                        /\ log[r + 1] = Op("sudo", "supervisorctl reread")
                        /\ log[r + 2] = Op("sudo", "supervisorctl update")
                        /\ log[r + 3] = Op("sudo", "supervisorctl restart")
                        /\ \A p \in Paused : p + 1 < r
                        /\ \A h \in HealthChecks : r + 3 < h

\* C15 witness: a run dropped and restored the database and ended with a
\* good health response
C15_Witness ==
    /\ task = "deploy"
    /\ Positions(DropDb) # {}
    /\ Paused # {}
    /\ pc = "done"
    /\ result = "ok"

BuildBibutils ==
    {Op("sudo", "tar -xzvf bibutils"), Op("sudo", "./configure"), Op("sudo", "make"),
     MakeInstall}

\* C16: a step of a deploy run issues the python3 virtualenv command only
\* when venv/bin is absent, the clone of the pages repository only when the
\* app declares pages and the directory is absent, and the bibutils build
\* only when bib2xml is absent; the three paths are there once a run has
\* ended well and are never removed, so a later run issues none of the
\* three.
C16_GuardedSteps ==
    [][task' = "deploy" =>
        LET new == IF IsPrefix(log, log')
                   THEN SubSeq(log', Len(log) + 1, Len(log'))
                   ELSE <<>>
        IN  /\ Contains(new, MakeVenv) => ~host.venv_bin
            /\ Contains(new, ClonePages) => (Pages(APPS[app]) /\ ~host.pages)
            /\ (\E i \in 1..Len(new) : new[i] \in BuildBibutils) => ~host.bib2xml
            /\ (pc' = "done" /\ result' = "ok") =>
                    /\ host'.venv_bin
                    /\ host'.bib2xml
                    /\ Pages(APPS[app]) => host'.pages
            /\ host.venv_bin => host'.venv_bin
            /\ host.pages => host'.pages
            /\ host.bib2xml => host'.bib2xml]_vars

\* C16 witness: a run of an app with pages on a python3 platform tested the
\* three paths, issued none of the three steps and ended well
C16_Witness ==
    /\ task = "deploy"
    /\ pc = "done"
    /\ result = "ok"
    /\ Contains(log, Op("exists", "venv/bin")) /\ ~Contains(log, MakeVenv)
    /\ Contains(log, Op("exists", "pages")) /\ ~Contains(log, ClonePages)
    /\ Contains(log, Op("exists", "/usr/local/bin/bib2xml"))
    /\ \A i \in 1..Len(log) : log[i] \notin BuildBibutils

ProxyConfigs == Writes("nginx_location") \cup Writes("nginx_site")

\* the steps of deploy that come after http_auth has returned
PastHttpAuth ==
    {DeploySteps[i] : i \in (StepIndex("admin_password") + 1)..Len(DeploySteps)}

AdminPasswordSet ==
    task = "deploy" =>
        /\ (pc \in PastHttpAuth \/ ProxyConfigs # {}) => pwds.admin
        /\ \A i \in ProxyConfigs :
                /\ log[i].data.admin_auth = AuthBlock
                /\ log[i].data.auth \in {AuthBlock, ""}
                /\ log[i].data.auth = AuthBlock <=> pwds.user

\* C17: a deploy run is past http_auth only with a non-empty admin
\* password, and an empty answer to the admin prompt leaves the run at the
\* prompt without issuing anything; every location or site block the run
\* renders has the auth block in its admin location, and in its main
\* location exactly if the password of the app user was not empty.
C17_AdminAlwaysProtected ==
    [][/\ AdminPasswordSet'
       /\ (task = "deploy" /\ pc = "admin_password" /\ ~pwds'.admin
              /\ result' # "RemoteCommandError") =>
                (pc' = "admin_password" /\ log' = log)]_vars

\* C17 witness: after an empty password for the app user the run rendered
\* a location block that is open but for its admin location
C17_Witness ==
    /\ task = "deploy"
    /\ ~pwds.user
    /\ pwds.admin
    /\ \E i \in Writes("nginx_location") :
            log[i].data.auth = "" /\ log[i].data.admin_auth = AuthBlock

====
